---- MODULE Spec2Model ----
(***************************************************************************)
(* WebFileManager: the permission store (shared/schema.ts,                 *)
(* server/storage.ts), the HTTP routes with their access gate              *)
(* (server/routes.ts) and the WebSocket relay (server/routes.ts).          *)
(*                                                                         *)
(* An optional JavaScript value (T | undefined) is a set with at most one  *)
(* element: {} is undefined (for a parsed route parameter: NaN).           *)
(* Every action is one request: it records the request in req, the         *)
(* response in res and the WebSocket frames the step sent in delivered.    *)
(* The creation of a grant is also modelled in two steps, its checks and   *)
(* its insert, with the requests between the two held in inFlight.         *)
(***************************************************************************)
EXTENDS Integers, Sequences, FiniteSets, TLC

\* ---- bounds of the model ----
NUsers == 4
NFiles == 2
MaxPermId == 2
NChans == 2
MaxInFlight == 2

UserIds == 1..NUsers
FileIds == 1..NFiles
PermIds == 1..MaxPermId
Chans == 1..NChans

\* the unauthenticated requester (req.isAuthenticated() is false)
Anon == 0

VARIABLES users, files, filePermissions, nextPermId, wsClients, req, res, delivered,
          inFlight

vars == <<users, files, filePermissions, nextPermId, wsClients, req, res, delivered,
          inFlight>>
db == <<users, files, filePermissions, nextPermId>>

\* ---- shared/schema.ts ----
\* a row of the users table
UserRow(id, isAdmin) == [id |-> id, isAdmin |-> isAdmin]
\* a row of the files table
FileRow(id, uploadedBy) == [id |-> id, uploadedBy |-> uploadedBy]
\* a row of the file_permissions table: serial id, two foreign keys, three flags;
\* the table declares no uniqueness over (fileId, userId)
PermRow(id, fileId, userId, canRead, canWrite, canShare) ==
  [id |-> id, fileId |-> fileId, userId |-> userId,
   canRead |-> canRead, canWrite |-> canWrite, canShare |-> canShare]

\* a ?? b
Nullish(a, b) == IF a = {} THEN b ELSE CHOOSE x \in a : TRUE

\* ---- server/storage.ts ----
\* const [file] = select from files where id = ...; the possible results
getFile(id) == {f \in files : id = {f.id}}

\* the rows a query for (fileId, userId) matches
PermRowsOf(fileId, userId) ==
  {p \in filePermissions : p.fileId = fileId /\ p.userId = userId}

\* const [permission] = select ... where fileId and userId: the first row of a
\* query with no ORDER BY, so any matching row; {{}} when none matches
getUserFilePermission(fileId, userId) ==
  IF PermRowsOf(fileId, userId) = {} THEN {{}}
  ELSE {{p} : p \in PermRowsOf(fileId, userId)}

getFilePermissions(fileId) == {p \in filePermissions : p.fileId = fileId}

\* insert ... returning: the foreign keys must reference existing rows
InsertAccepted(row) ==
  /\ \E f \in files : f.id = row.fileId
  /\ \E u \in users : u.id = row.userId

\* update ... set(permission) where id = ...: undefined fields are left alone
UpdatedRow(p, body) ==
  [p EXCEPT !.canRead = Nullish(body.canRead, @),
            !.canWrite = Nullish(body.canWrite, @),
            !.canShare = Nullish(body.canShare, @)]

\* the update without its where clause
updateFilePermissionEveryRow(id, body) ==
  {UpdatedRow(p, body) : p \in filePermissions}

updateFilePermission(id, body) ==
  {IF p.id = id THEN UpdatedRow(p, body) ELSE p : p \in filePermissions}

deleteFilePermission(id) == {p \in filePermissions : p.id # id}

\* delete from files / users: ON DELETE CASCADE removes the referencing rows
deleteFileCascade(id) == {p \in filePermissions : p.fileId # id}
\* the users row goes, the rows referencing it stay
deleteUserNoCascade(id) == filePermissions
deleteUserCascade(id) == {p \in filePermissions : p.userId # id}

\* ---- requests and responses ----
NoBody == [canRead |-> {}, canWrite |-> {}, canShare |-> {}]
Body(r, w, s) == [canRead |-> r, canWrite |-> w, canShare |-> s]

\* the request bodies POST /permissions is exercised with
CreateBodies ==
  { Body({TRUE}, {}, {}), Body({TRUE}, {FALSE}, {TRUE}),
    Body({FALSE}, {FALSE}, {FALSE}) }
\* the request bodies PATCH /permissions/:permissionId is exercised with
PatchBodies ==
  { Body({}, {}, {TRUE}), Body({FALSE}, {}, {}), NoBody }

Request(op, actor, fileId, permissionId, userId, body) ==
  [op |-> op, actor |-> actor, fileId |-> fileId,
   permissionId |-> permissionId, userId |-> userId, body |-> body]

\* status, the files sent (a listing or the served file), the rows sent
Response(status, sentFiles, sentRows) ==
  [status |-> status, files |-> sentFiles, rows |-> sentRows]

NoDelivery == [c \in Chans |-> <<>>]

\* an HTTP route answers; no route sends a WebSocket frame
Respond(request, response) ==
  /\ req' = request
  /\ res' = response
  /\ delivered' = NoDelivery
  /\ UNCHANGED <<wsClients, inFlight>>

Status(s) == Response(s, <<>>, {})

\* req.user of an authenticated request
Actors == {u.id : u \in users} \cup {Anon}
IsAdmin(actor) == \E u \in users : u.id = actor /\ u.isAdmin

\* ensureFileAccess without the uploader's bypass
ensureFileAccessAdminOnly(actor, fileId) ==
  IF actor = Anon THEN {"401"}
  ELSE IF fileId = {} THEN {"404", "500"}
  ELSE IF getFile(fileId) = {} THEN {"404"}
  ELSE LET file == CHOOSE f \in getFile(fileId) : TRUE IN
       IF IsAdmin(actor) THEN {"next"}
       ELSE { IF permission = {} \/ (\E p \in permission : ~p.canRead)
                THEN "403" ELSE "next"
              : permission \in getUserFilePermission(file.id, actor) }

\* ---- server/routes.ts: ensureFileAccess ----
\* fileId is parseInt(req.params.fileId): {} is NaN, for which the query finds
\* no row or fails.  The outcomes: a status, or "next".
ensureFileAccess(actor, fileId) ==
  IF actor = Anon THEN {"401"}
  ELSE IF fileId = {} THEN {"404", "500"}
  ELSE IF getFile(fileId) = {} THEN {"404"}
  ELSE LET file == CHOOSE f \in getFile(fileId) : TRUE IN
       IF IsAdmin(actor) \/ file.uploadedBy = actor THEN {"next"}
       ELSE { IF permission = {} \/ (\E p \in permission : ~p.canRead)
                THEN "403" ELSE "next"
              : permission \in getUserFilePermission(file.id, actor) }

\* the orders in which select from files can return the rows
getFiles ==
  {s \in [1..Cardinality(files) -> files] : \A f \in files : \E i \in DOMAIN s : s[i] = f}

\* ---- server/routes.ts: the routes ----
\* GET /api/files: what the map callback can return for one file (kept or null)
ListKeeps(actor, file) ==
  IF IsAdmin(actor) \/ file.uploadedBy = actor THEN {TRUE}
  ELSE { \E p \in permission : p.canRead
         : permission \in getUserFilePermission(file.id, actor) }

\* the kept files in the opposite order
filterBooleanReversed(list, keep) ==
  LET kept == SelectSeq(list, LAMBDA f : keep[f]) IN
  [i \in 1..Len(kept) |-> kept[Len(kept) + 1 - i]]

\* accessibleFiles.filter(Boolean): the entries the callback did not turn to null
filterBoolean(list, keep) == SelectSeq(list, LAMBDA f : keep[f])

ListFiles(actor) ==
  /\ IF actor = Anon
       THEN Respond(Request("list", actor, {}, {}, {}, NoBody), Status("401"))
       ELSE \E order \in getFiles :
            \E keep \in [files -> BOOLEAN] :
              /\ \A f \in files : keep[f] \in ListKeeps(actor, f)
              /\ Respond(Request("list", actor, {}, {}, {}, NoBody),
                         Response("200", filterBoolean(order, keep), {}))
  /\ UNCHANGED db

\* GET /api/files/:id: the route declares :id, the gate reads params.fileId
DownloadGateParam(id) == {}
Download(actor, id) ==
  /\ \E gate \in ensureFileAccess(actor, DownloadGateParam(id)) :
       IF gate # "next"
         THEN Respond(Request("download", actor, id, {}, {}, NoBody), Status(gate))
         ELSE IF getFile(id) = {}
           THEN Respond(Request("download", actor, id, {}, {}, NoBody), Status("404"))
           ELSE Respond(Request("download", actor, id, {}, {}, NoBody),
                        Response("200", <<CHOOSE f \in getFile(id) : TRUE>>, {}))
  /\ UNCHANGED db

\* DELETE /api/files/:id
DeleteFile(actor, id) ==
  LET request == Request("deleteFile", actor, id, {}, {}, NoBody) IN
  IF actor = Anon THEN Respond(request, Status("401")) /\ UNCHANGED db
  ELSE IF ~IsAdmin(actor) THEN Respond(request, Status("403")) /\ UNCHANGED db
  ELSE IF getFile(id) = {} THEN Respond(request, Status("404")) /\ UNCHANGED db
  ELSE /\ files' = files \ getFile(id)
       /\ filePermissions' = deleteFileCascade(CHOOSE i \in id : TRUE)
       /\ Respond(request, Status("200"))
       /\ UNCHANGED <<users, nextPermId>>

\* GET /api/files/:fileId/permissions
GetPermissions(actor, fileId) ==
  /\ \E gate \in ensureFileAccess(actor, fileId) :
       IF gate # "next"
         THEN Respond(Request("getPermissions", actor, fileId, {}, {}, NoBody), Status(gate))
         ELSE Respond(Request("getPermissions", actor, fileId, {}, {}, NoBody),
                      Response("200", <<>>, getFilePermissions(CHOOSE i \in fileId : TRUE)))
  /\ UNCHANGED db

\* the share check left out
MaySharePostUnchecked(actor, file) == {TRUE}

\* POST /api/files/:fileId/permissions: the share check after the gate, for a
\* request of actor on an existing file; the possible outcomes (TRUE: may share)
MaySharePost(actor, file) ==
  IF IsAdmin(actor) \/ file.uploadedBy = actor THEN {TRUE}
  ELSE { \E p \in permission : p.canShare
         : permission \in getUserFilePermission(file.id, actor) }

\* canShare defaulting to true
NewPermissionShareDefault(id, fileId, userId, body) ==
  PermRow(id, fileId, userId,
          Nullish(body.canRead, TRUE), Nullish(body.canWrite, FALSE),
          Nullish(body.canShare, TRUE))

\* the values handed to createFilePermission
NewPermission(id, fileId, userId, body) ==
  PermRow(id, fileId, userId,
          Nullish(body.canRead, TRUE), Nullish(body.canWrite, FALSE),
          Nullish(body.canShare, FALSE))

PostPermission(actor, fileId, userId, body) ==
  LET request == Request("createPermission", actor, fileId, {}, {userId}, body) IN
  \E gate \in ensureFileAccess(actor, fileId) :
    IF gate # "next" THEN Respond(request, Status(gate)) /\ UNCHANGED db
    ELSE IF getFile(fileId) = {} THEN Respond(request, Status("404")) /\ UNCHANGED db
    ELSE LET file == CHOOSE f \in getFile(fileId) : TRUE
             row == NewPermission(nextPermId, file.id, userId, body) IN
         \E mayShare \in MaySharePost(actor, file) :
           IF ~mayShare THEN Respond(request, Status("403")) /\ UNCHANGED db
           ELSE IF ~InsertAccepted(row) THEN Respond(request, Status("400")) /\ UNCHANGED db
           ELSE /\ nextPermId <= MaxPermId
                /\ filePermissions' = filePermissions \cup {row}
                /\ nextPermId' = nextPermId + 1
                /\ Respond(request, Response("201", <<>>, {row}))
                /\ UNCHANGED <<users, files>>

\* POST /api/files/:fileId/permissions up to its last check: every storage call
\* is awaited, so other requests run between the checks and the insert.  A
\* request that passed waits in inFlight for its createFilePermission.
PostPermissionChecks(actor, fileId, userId, body) ==
  LET request == Request("createPermission", actor, fileId, {}, {userId}, body) IN
  \E gate \in ensureFileAccess(actor, fileId) :
    IF gate # "next" THEN Respond(request, Status(gate)) /\ UNCHANGED db
    ELSE IF getFile(fileId) = {} THEN Respond(request, Status("404")) /\ UNCHANGED db
    ELSE LET file == CHOOSE f \in getFile(fileId) : TRUE IN
         \E mayShare \in MaySharePost(actor, file) :
           IF ~mayShare THEN Respond(request, Status("403")) /\ UNCHANGED db
           ELSE /\ request \notin inFlight
                /\ Cardinality(inFlight) < MaxInFlight
                /\ inFlight' = inFlight \cup {request}
                /\ req' = request /\ res' = Status("none") /\ delivered' = NoDelivery
                /\ UNCHANGED <<db, wsClients>>

\* the rest of the handler: createFilePermission and the 201, or the 400 of
\* the catch
PostPermissionInsert(request) ==
  LET row == NewPermission(nextPermId, CHOOSE f \in request.fileId : TRUE,
                           CHOOSE u \in request.userId : TRUE, request.body) IN
  /\ request \in inFlight
  /\ inFlight' = inFlight \ {request}
  /\ req' = request /\ delivered' = NoDelivery
  /\ UNCHANGED wsClients
  /\ IF ~InsertAccepted(row) THEN res' = Status("400") /\ UNCHANGED db
     ELSE /\ nextPermId <= MaxPermId
          /\ filePermissions' = filePermissions \cup {row}
          /\ nextPermId' = nextPermId + 1
          /\ res' = Response("201", <<>>, {row})
          /\ UNCHANGED <<users, files>>

\* the check of POST applied to PATCH and DELETE
MayModifyOrShare(actor, file) ==
  \/ IsAdmin(actor) \/ file.uploadedBy = actor
  \/ \E p \in PermRowsOf(file.id, actor) : p.canShare

\* PATCH and DELETE /api/files/:fileId/permissions/:permissionId: the check after
\* the gate
MayModify(actor, file) == IsAdmin(actor) \/ file.uploadedBy = actor

PatchPermission(actor, fileId, permissionId, body) ==
  LET request == Request("updatePermission", actor, fileId, {permissionId}, {}, body) IN
  \E gate \in ensureFileAccess(actor, fileId) :
    IF gate # "next" THEN Respond(request, Status(gate)) /\ UNCHANGED db
    ELSE IF getFile(fileId) = {} THEN Respond(request, Status("404")) /\ UNCHANGED db
    ELSE IF ~MayModify(actor, CHOOSE f \in getFile(fileId) : TRUE)
      THEN Respond(request, Status("403")) /\ UNCHANGED db
    \* set() of an object whose values are all undefined throws
    ELSE IF body = NoBody THEN Respond(request, Status("400")) /\ UNCHANGED db
    ELSE /\ filePermissions' = updateFilePermission(permissionId, body)
         /\ Respond(request,
                    Response("200", <<>>,
                             {UpdatedRow(p, body) : p \in {q \in filePermissions : q.id = permissionId}}))
         /\ UNCHANGED <<users, files, nextPermId>>

DeletePermission(actor, fileId, permissionId) ==
  LET request == Request("deletePermission", actor, fileId, {permissionId}, {}, NoBody) IN
  \E gate \in ensureFileAccess(actor, fileId) :
    IF gate # "next" THEN Respond(request, Status(gate)) /\ UNCHANGED db
    ELSE IF getFile(fileId) = {} THEN Respond(request, Status("404")) /\ UNCHANGED db
    ELSE IF ~MayModify(actor, CHOOSE f \in getFile(fileId) : TRUE)
      THEN Respond(request, Status("403")) /\ UNCHANGED db
    ELSE /\ filePermissions' = deleteFilePermission(permissionId)
         /\ Respond(request, Status("200"))
         /\ UNCHANGED <<users, files, nextPermId>>

\* DELETE /api/users/:id behind ensureAdmin
DeleteUser(actor, id) ==
  LET request == Request("deleteUser", actor, {}, {}, {id}, NoBody) IN
  IF ~IsAdmin(actor) THEN Respond(request, Status("403")) /\ UNCHANGED db
  ELSE /\ users' = {u \in users : u.id # id}
       /\ filePermissions' = deleteUserCascade(id)
       /\ Respond(request, Status("200"))
       /\ UNCHANGED <<files, nextPermId>>

\* ---- server/routes.ts: the WebSocket server ----
PermissionUpdate(fileId) == [type |-> "permission_update", fileId |-> fileId]
\* the frames a client is exercised with
ClientMessages == {PermissionUpdate(1), [type |-> "hello", fileId |-> 0]}

WsRequest(op) == Request(op, Anon, {}, {}, {}, NoBody)

\* a client connects: wss.clients gains an open socket
WsConnect(c) ==
  /\ wsClients[c] = "absent"
  /\ wsClients' = [wsClients EXCEPT ![c] = "OPEN"]
  /\ req' = WsRequest("wsConnect") /\ res' = Status("none") /\ delivered' = NoDelivery
  /\ UNCHANGED <<db, inFlight>>

\* a client starts the closing handshake (ShareDialog's cleanup calls ws.close())
WsClose(c) ==
  /\ wsClients[c] = "OPEN"
  /\ wsClients' = [wsClients EXCEPT ![c] = "CLOSING"]
  /\ req' = WsRequest("wsClose") /\ res' = Status("none") /\ delivered' = NoDelivery
  /\ UNCHANGED <<db, inFlight>>

\* the socket is closed: wss.clients drops it
WsClosed(c) ==
  /\ wsClients[c] = "CLOSING"
  /\ wsClients' = [wsClients EXCEPT ![c] = "absent"]
  /\ req' = WsRequest("wsClosed") /\ res' = Status("none") /\ delivered' = NoDelivery
  /\ UNCHANGED <<db, inFlight>>

\* the loop over the clients given up at the first closing socket
BroadcastUntilClosing(message) ==
  [d \in Chans |-> IF /\ wsClients[d] = "OPEN"
                      /\ \A c \in Chans : c < d => wsClients[c] # "CLOSING"
                   THEN <<message>> ELSE <<>>]

\* ws.on('message'): the frame is sent to every client whose readyState is OPEN
Broadcast(message) ==
  [d \in Chans |-> IF wsClients[d] = "OPEN" THEN <<message>> ELSE <<>>]

\* a client sends a frame.  routes.ts imports only WebSocketServer, so
\* WebSocket.OPEN reads a global: where the runtime defines none the handler
\* throws before any send.
WsMessage(c, message) ==
  /\ wsClients[c] = "OPEN"
  /\ \/ delivered' = Broadcast(message)
     \/ delivered' = NoDelivery
  /\ req' = WsRequest("wsMessage") /\ res' = Status("none")
  /\ UNCHANGED <<db, wsClients, inFlight>>

\* ---- the system ----
OwnerOf(f) == ((f - 1) % (NUsers - 1)) + 2

Init ==
  /\ users = {UserRow(u, u = 1) : u \in UserIds}
  /\ files = {FileRow(f, OwnerOf(f)) : f \in FileIds}
  /\ filePermissions = {}
  /\ nextPermId = 1
  /\ wsClients = [c \in Chans |-> "absent"]
  /\ req = WsRequest("none")
  /\ res = Status("none")
  /\ inFlight = {}
  /\ delivered = NoDelivery

\* the HTTP requests of the actors in as on the files in fs
Requests(as, fs) ==
  \/ \E actor \in as \cap Actors : ListFiles(actor)
  \/ \E actor \in as \cap Actors, f \in fs : Download(actor, {f})
  \/ \E actor \in as \cap Actors, f \in fs : DeleteFile(actor, {f})
  \/ \E actor \in as \cap Actors, f \in fs : GetPermissions(actor, {f})
  \/ \E actor \in as \cap Actors, f \in fs, u \in UserIds, body \in CreateBodies :
       PostPermission(actor, {f}, u, body)
  \/ \E actor \in as \cap Actors, f \in fs, p \in PermIds, body \in PatchBodies :
       PatchPermission(actor, {f}, p, body)
  \/ \E actor \in as \cap Actors, f \in fs, p \in PermIds :
       DeletePermission(actor, {f}, p)

\* the removal of users by the actors in as
UserRemovals(as) ==
  \E actor \in as \cap Actors, u \in UserIds : DeleteUser(actor, u)

\* the WebSocket events
Sockets ==
  \/ \E c \in Chans : WsConnect(c)
  \/ \E c \in Chans : WsClose(c)
  \/ \E c \in Chans : WsClosed(c)
  \/ \E c \in Chans, m \in ClientMessages : WsMessage(c, m)

\* the whole server: every route for every requester and file, and the sockets
Next ==
  \/ Requests(UserIds \cup {Anon}, FileIds)
  \/ UserRemovals(UserIds \cup {Anon})
  \/ Sockets

Spec == Init /\ [][Next]_vars

\* every actor's requests on the first file: no user is removed, no socket used
AccessNext == Requests(UserIds \cup {Anon}, {1})

SpecAccess == Init /\ [][AccessNext]_vars

\* the owner's and a grantee's requests on the first file, with the sockets
NotifyNext == Requests({OwnerOf(1), OwnerOf(1) + 1}, {1}) \/ Sockets

SpecNotify == Init /\ [][NotifyNext]_vars

\* file 1 and the accounts: the admin, the owner and one more user act on the
\* file, its grants and the users
CascadeNext ==
  \/ Requests({1, OwnerOf(1), OwnerOf(1) + 1}, {1})
  \/ UserRemovals({1, OwnerOf(1)})
SpecCascade == Init /\ [][CascadeNext]_vars

\* both files: each owner acts on its own file and on the other's
CrossNext == Requests({OwnerOf(1), OwnerOf(2)}, FileIds)
SpecCross == Init /\ [][CrossNext]_vars

\* a creation body that asks for the write capability
WriteBodies == {Body({TRUE}, {TRUE}, {})}

\* file 1 with creations that grant write: the owner and one more user act
EscalateNext ==
  \/ Requests({OwnerOf(1), OwnerOf(1) + 1}, {1})
  \/ \E actor \in {OwnerOf(1), OwnerOf(1) + 1} \cap Actors, u \in UserIds,
        body \in WriteBodies :
       PostPermission(actor, {1}, u, body)
SpecEscalate == Init /\ [][EscalateNext]_vars

\* file 1 with the creation split at its awaits: the owner and one more user
\* create grants for that user and a third while the owner updates and deletes
\* them
RaceNext ==
  \/ \E actor \in {OwnerOf(1), OwnerOf(1) + 1} \cap Actors,
        u \in {OwnerOf(1) + 1, OwnerOf(1) + 2}, body \in CreateBodies :
       PostPermissionChecks(actor, {1}, u, body)
  \/ \E request \in inFlight : PostPermissionInsert(request)
  \/ \E p \in PermIds, body \in PatchBodies :
       PatchPermission(OwnerOf(1), {1}, p, body)
  \/ \E p \in PermIds : DeletePermission(OwnerOf(1), {1}, p)
SpecRace == Init /\ [][RaceNext]_vars

\* ---- vocabulary of the properties ----
GateOps == {"download", "getPermissions", "createPermission",
            "updatePermission", "deletePermission"}
GrantOps == {"createPermission", "updatePermission", "deletePermission"}

\* the last step was a grant mutation that committed
Committed == req.op \in GrantOps /\ res.status \in {"200", "201"}

\* actor is an admin or the uploader of file
Privileged(actor, file) == IsAdmin(actor) \/ file.uploadedBy = actor

\* the step taken is a request op of an existing user on the existing file
StepOn(op, actor, file) ==
  /\ req'.op = op
  /\ req'.actor = actor
  /\ req'.fileId = {file.id}

\* C1: at most one grant row exists per (fileId, userId) pair.
C1_OneGrantPerPair ==
  \A p, q \in filePermissions :
    (p.fileId = q.fileId /\ p.userId = q.userId) => p = q

\* C2: an admin or the owner of a file is never answered 403 by the gate or by
\* grant creation, update or deletion on that file, and the file is never left
\* out of the listing, whatever rows are stored.
C2_OwnerAdminNeverDenied ==
  \A f \in files :
    (req.actor # Anon /\ Privileged(req.actor, f)) =>
      /\ (req.op \in GateOps /\ req.fileId = {f.id}) => res.status # "403"
      /\ (req.op = "list" /\ res.status = "200") =>
           \E i \in DOMAIN res.files : res.files[i] = f

\* an owner who is no admin, holding a row with all three flags false on the own
\* file, has updated a grant of that file
C2_Witness ==
  \E f \in files :
    /\ req.actor = f.uploadedBy /\ ~IsAdmin(req.actor)
    /\ req.op = "updatePermission" /\ req.fileId = {f.id} /\ res.status = "200"
    /\ \E p \in PermRowsOf(f.id, req.actor) :
         ~p.canRead /\ ~p.canWrite /\ ~p.canShare

\* C3: a user who is neither admin nor owner and holds no row with canShare on
\* a file is answered 403 on every create, update and delete of a grant of
\* that file, and the stored rows stay as they were.
C3_NoShareNoManage ==
  [][ \A f \in files, u \in users, op \in GrantOps :
        ( /\ StepOn(op, u.id, f)
          /\ ~Privileged(u.id, f)
          /\ \A p \in PermRowsOf(f.id, u.id) : ~p.canShare )
        => (res'.status = "403" /\ filePermissions' = filePermissions) ]_vars

\* a grantee who may read but not share was refused the creation of a grant
C3_Witness ==
  \E f \in files :
    /\ req.op = "createPermission" /\ req.fileId = {f.id} /\ res.status = "403"
    /\ req.actor # Anon /\ ~Privileged(req.actor, f)
    /\ \E p \in PermRowsOf(f.id, req.actor) : p.canRead
    /\ \A p \in PermRowsOf(f.id, req.actor) : ~p.canShare

C6_RevokedCannotRead ==
  [][ \A f \in files, g \in filePermissions :
        ( /\ StepOn("deletePermission", f.uploadedBy, f)
          /\ f.uploadedBy \in Actors
          /\ req'.permissionId = {g.id}
          /\ g.fileId = f.id
          /\ g.userId \in Actors /\ ~Privileged(g.userId, f)
          /\ res'.status = "200" )
        => /\ (ensureFileAccess(g.userId, {f.id}))' = {"403"}
           /\ (ListKeeps(g.userId, f))' = {FALSE} ]_vars

\* C7: after a grant mutation on a file has committed, every channel that is
\* subscribed has received exactly one permission_update event for that file,
\* and a channel that is not subscribed has received nothing.
C7_MutationNotifies ==
  Committed =>
    \A c \in Chans :
      delivered[c] = IF wsClients[c] = "OPEN"
                       THEN <<PermissionUpdate(CHOOSE f \in req.fileId : TRUE)>>
                       ELSE <<>>

\* C8: every event delivered to a subscriber is a permission_update for the
\* file of a grant mutation that has just committed.
C8_OnlyServerEvents ==
  \A c \in Chans :
    delivered[c] # <<>> =>
      /\ Committed
      /\ \A i \in DOMAIN delivered[c] :
           delivered[c][i] = PermissionUpdate(CHOOSE f \in req.fileId : TRUE)

\* C9: for an authenticated user the gate answers 404 exactly when the target
\* file does not exist, and answers 403 only for a file that exists.
C9_NotFoundIffAbsent ==
  (req.op \in GateOps /\ req.actor # Anon) =>
    /\ res.status = "404" <=> getFile(req.fileId) = {}
    /\ res.status = "403" => getFile(req.fileId) # {}

\* C10: a download of an existing file by an admin, the owner or a holder of a
\* grant with canRead serves that file, and any other download of it is
\* answered 403.
C10_DownloadGated ==
  \A f \in files :
    (req.op = "download" /\ req.fileId = {f.id} /\ req.actor # Anon) =>
      IF \/ Privileged(req.actor, f)
         \/ \E p \in PermRowsOf(f.id, req.actor) : p.canRead
        THEN res.status = "200" /\ res.files = <<f>>
        ELSE res.status = "403"

\* the files the last response listed
Listed == {res.files[i] : i \in DOMAIN res.files}

\* C11: the listing of an authenticated user answers 200 with exactly the files
\* of which the user is admin or owner or on which the user holds a grant with
\* canRead.
C11_ListingExact ==
  (req.op = "list" /\ req.actor # Anon) =>
    /\ res.status = "200"
    /\ Listed = {f \in files :
                   \/ Privileged(req.actor, f)
                   \/ \E p \in PermRowsOf(f.id, req.actor) : p.canRead}

\* the lists of distinct files a filter can be handed
FileLists ==
  UNION {{s \in [1..n -> files] : \A i, j \in 1..n : s[i] = s[j] => i = j}
         : n \in 0..Cardinality(files)}

\* what the map callback answers for each file, the rows and their order fixed
KeepChoices(actor) ==
  {keep \in [files -> BOOLEAN] : \A f \in files : keep[f] \in ListKeeps(actor, f)}

\* out holds entries of list only, in the order they have in list
InOrderOf(out, list) ==
  /\ \A i \in DOMAIN out : \E k \in DOMAIN list : list[k] = out[i]
  /\ \A i, j \in DOMAIN out :
       i < j => \E k, l \in DOMAIN list : k < l /\ list[k] = out[i] /\ list[l] = out[j]

C13_SelfGrantDenied ==
  \A f \in files :
    ( /\ req.op = "createPermission" /\ req.fileId = {f.id}
      /\ req.actor # Anon /\ req.userId = {req.actor} )
    => (res.status = "403" /\ res.rows = {})

\* C14: every stored grant names a stored file and a stored user, whatever
\* files and users were deleted and whatever creations were asked for.
C14_GrantsReferenceExisting ==
  \A p \in filePermissions :
    /\ \E f \in files : f.id = p.fileId
    /\ \E u \in users : u.id = p.userId

\* a user was just deleted while a grant made earlier is no longer stored
C14_Witness ==
  /\ req.op = "deleteUser" /\ res.status = "200"
  /\ \A u \in users : req.userId # {u.id}
  /\ nextPermId > 1 /\ Cardinality(filePermissions) < nextPermId - 1

C17_OnlyGrantsOfAddressedFile ==
  [][ req'.op \in {"updatePermission", "deletePermission"}
        => \A p \in filePermissions :
             req'.fileId # {p.fileId} => p \in filePermissions' ]_vars

\* C18: a user who is neither admin nor owner of the file and none of whose
\* grants on it has canWrite creates no grant with canWrite on it, for another
\* user or for itself.
C18_NoWriteEscalation ==
  [][ \A f \in files :
        ( /\ StepOn("createPermission", req'.actor, f)
          /\ res'.status = "201"
          /\ ~Privileged(req'.actor, f)
          /\ \A p \in PermRowsOf(f.id, req'.actor) : ~p.canWrite )
        => \A q \in res'.rows : ~q.canWrite ]_vars

\* C15: after a creation for a (file, user) pair commits, the one grant row of
\* the pair is the row that creation wrote, however the creations for the pair
\* interleaved.
C15_LastWriterWins ==
  (req.op = "createPermission" /\ res.status = "201")
    => \A q \in res.rows : PermRowsOf(q.fileId, q.userId) = res.rows

\* C19: a creation by a user who is neither admin nor owner commits only if
\* the user holds a grant with canShare on the file at the moment of the
\* commit.
C19_SharerHoldsShareAtCommit ==
  [][ \A f \in files :
        ( /\ StepOn("createPermission", req'.actor, f)
          /\ res'.status = "201"
          /\ ~Privileged(req'.actor, f) )
        => \E p \in PermRowsOf(f.id, req'.actor) : p.canShare ]_vars

====
